---- MODULE Spec2Model ----
(***************************************************************************)
(* A2lWriter (src/src/flashcontainer/a2lwriter.py): the A2L description    *)
(* writer driven by the model walker.  The output file is modelled as the  *)
(* sequence of tokens written to it; indentation and line breaks, which    *)
(* are fixed literal text of the source, are left out.  Every token is a   *)
(* record [k, t]: k the kind, t the text as a sequence of fragments.       *)
(***************************************************************************)
EXTENDS Integers, Sequences, FiniteSets, TLC

VARIABLES model, options, pc, ci, bi, pi, ctx_block, a2l_file, closes,
          file, exc, last, prev

vars == <<model, options, pc, ci, bi, pi, ctx_block, a2l_file, closes,
          file, exc, last, prev>>

(***************************************************************************)
(* Bounds of the checked instances.                                        *)
(***************************************************************************)
MaxEntities == 4
MaxPayload == 16
MaxCommentLen == 3

(***************************************************************************)
(* Python number formatting.  Integers of the type table exceed 32 bits,   *)
(* so they are kept as [neg, mag] with mag the little-endian sequence of   *)
(* decimal digits (the empty sequence is zero).                            *)
(***************************************************************************)
DigitChar == <<"0", "1", "2", "3", "4", "5", "6", "7", "8", "9",
               "a", "b", "c", "d", "e", "f">>

RECURSIVE MulAdd(_, _, _)
MulAdd(d, m, a) ==
    IF d = <<>>
    THEN IF a = 0 THEN <<>> ELSE <<a % 10>> \o MulAdd(<<>>, m, a \div 10)
    ELSE LET v == d[1] * m + a
         IN  <<v % 10>> \o MulAdd(Tail(d), m, v \div 10)

RECURSIVE FromDigits(_, _, _)
FromDigits(digs, base, acc) ==
    IF digs = <<>> THEN acc
    ELSE FromDigits(Tail(digs), base, MulAdd(acc, base, Head(digs)))

HexLit(digs) == [float |-> FALSE, neg |-> FALSE,
                 mag |-> FromDigits(digs, 16, <<>>), repr |-> ""]
DecLit(digs) == [float |-> FALSE, neg |-> FALSE,
                 mag |-> FromDigits(digs, 10, <<>>), repr |-> ""]
NegLit(digs) == [float |-> FALSE, neg |-> TRUE,
                 mag |-> FromDigits(digs, 10, <<>>), repr |-> ""]
FloatLit(r)  == [float |-> TRUE, neg |-> FALSE, mag |-> <<>>, repr |-> r]

RECURSIVE MagStr(_)
MagStr(mag) ==
    IF mag = <<>> THEN <<>>
    ELSE MagStr(Tail(mag)) \o <<DigitChar[Head(mag) + 1]>>

\* f"{v}" of a table value
Format(v) ==
    IF v.float THEN <<v.repr>>
    ELSE (IF v.neg THEN <<"-">> ELSE <<>>)
         \o (IF v.mag = <<>> THEN <<"0">> ELSE MagStr(v.mag))

RECURSIVE ToBase(_, _)
ToBase(n, b) ==
    IF n < b THEN <<DigitChar[n + 1]>>
    ELSE ToBase(n \div b, b) \o <<DigitChar[(n % b) + 1]>>

\* str(n) and hex(n) of a non-negative int
str(n) == ToBase(n, 10)
hex(n) == <<"0x">> \o ToBase(n, 16)

(***************************************************************************)
(* Tokens.                                                                 *)
(***************************************************************************)
Kw(s)     == [k |-> "kw", t |-> <<s>>]
Ident(n)  == [k |-> "id", t |-> n]
Lit(txt)  == [k |-> "lit", t |-> txt]
Quote     == [k |-> "quote", t |-> <<>>]
Chars(c)  == [k |-> "chars", t |-> c]
Cmt(frag) == [k |-> "cmt", t |-> frag]

RECURSIVE Flatten(_)
Flatten(ws) == IF ws = <<>> THEN <<>> ELSE Head(ws) \o Flatten(Tail(ws))

(***************************************************************************)
(* Registries.                                                             *)
(***************************************************************************)
ParamType == {"UINT8", "UINT16", "UINT32", "UINT64",
              "INT8", "INT16", "INT32", "INT64",
              "FLOAT32", "FLOAT64", "UTF8"}

Endianness == {"LE", "BE"}

F2 == <<15, 15>>
F4 == F2 \o F2
F8 == F4 \o F4
F16 == F8 \o F8

TYPE_MAPPING ==
    [t \in ParamType |->
        CASE t = "UINT8"   -> <<"UBYTE", DecLit(<<0>>), HexLit(F2)>>
          [] t = "UINT16"  -> <<"UWORD", DecLit(<<0>>), HexLit(F4)>>
          [] t = "UINT32"  -> <<"ULONG", DecLit(<<0>>), HexLit(F8)>>
          [] t = "UINT64"  -> <<"A_UINT64", DecLit(<<0>>), HexLit(F16)>>
          [] t = "INT8"    -> <<"SBYTE", NegLit(<<1, 2, 8>>), DecLit(<<1, 2, 7>>)>>
          [] t = "INT16"   -> <<"SWORD", NegLit(<<3, 2, 7, 6, 8>>),
                                DecLit(<<3, 2, 7, 6, 7>>)>>
          [] t = "INT32"   -> <<"SLONG",
                                NegLit(<<2, 1, 4, 7, 4, 8, 3, 6, 4, 8>>),
                                DecLit(<<2, 1, 4, 7, 4, 8, 3, 6, 4, 7>>)>>
          [] t = "INT64"   -> <<"_A_INT64",
                                NegLit(<<9, 2, 2, 3, 3, 7, 2, 0, 3, 6,
                                         8, 5, 4, 7, 7, 5, 8, 0, 8>>),
                                DecLit(<<9, 2, 2, 3, 3, 7, 2, 0, 3, 6,
                                         8, 5, 4, 7, 7, 5, 8, 0, 7>>)>>
          [] t = "FLOAT32" -> <<"FLOAT32_IEEE", FloatLit("1.175494351e-38"),
                                FloatLit("3.402823466e+38")>>
          [] t = "FLOAT64" -> <<"FLOAT64_IEEE",
                                FloatLit("2.2250738585072014e-308"),
                                FloatLit("1.7976931348623157e+308")>>
          [] t = "UTF8"    -> <<"UBYTE", DecLit(<<0>>), HexLit(F2)>>]

BYTEORDER_MAPPING ==
    [e \in Endianness |->
        CASE e = "LE" -> "MSB_LAST"
          [] e = "BE" -> "MSB_FIRST"]

\* a lookup self._TYPE_MAPPING[ptype] with the text type taken for a signed byte
TypeEntrySigned(ptype) ==
    TYPE_MAPPING[IF ptype = "UTF8" THEN "INT8" ELSE ptype]

\* self._TYPE_MAPPING[ptype]
TypeEntry(ptype) == TYPE_MAPPING[ptype]

\* a lookup self._BYTEORDER_MAPPING[e] with the two tokens exchanged
ByteOrderSwapped(endianess) ==
    BYTEORDER_MAPPING[IF endianess = "LE" THEN "BE" ELSE "LE"]

\* self._BYTEORDER_MAPPING[endianess]
ByteOrder(endianess) == BYTEORDER_MAPPING[endianess]

\* ByteConvert.get_type_size
get_type_size(t) ==
    CASE t \in {"UINT8", "INT8", "UTF8"}       -> 1
      [] t \in {"UINT16", "INT16"}             -> 2
      [] t \in {"UINT32", "INT32", "FLOAT32"}  -> 4
      [] t \in {"UINT64", "INT64", "FLOAT64"}  -> 8

(***************************************************************************)
(* Data model (flashcontainer.datamodel): a model is a sequence of         *)
(* containers, a container owns blocks, a block owns parameters.  Names    *)
(* and comments are character sequences; len(param.value) is value_len;    *)
(* header is TRUE when block.header is not None; comment.present is FALSE  *)
(* when param.comment is None.                                             *)
(***************************************************************************)
None == [present |-> FALSE, text |-> <<>>]
Some(text) == [present |-> TRUE, text |-> text]

Container(name) == [name |-> name, blocks |-> <<>>]
Block(name, addr, endianess, header) ==
    [name |-> name, addr |-> addr, endianess |-> endianess,
     header |-> header, parameter |-> <<>>]
Parameter(name, ptype, value_len, offset, comment) ==
    [name |-> name, ptype |-> ptype, value_len |-> value_len,
     offset |-> offset, comment |-> comment]

RECURSIVE NumBlocks(_)
NumBlocks(m) ==
    IF m = <<>> THEN 0 ELSE Len(Head(m).blocks) + NumBlocks(Tail(m))

RECURSIVE NumParamsOf(_)
NumParamsOf(blocks) ==
    IF blocks = <<>> THEN 0
    ELSE Len(Head(blocks).parameter) + NumParamsOf(Tail(blocks))

RECURSIVE NumParams(_)
NumParams(m) ==
    IF m = <<>> THEN 0 ELSE NumParamsOf(Head(m).blocks) + NumParams(Tail(m))

AddContainer(m) == Append(m, Container(<<"C">> \o str(Len(m) + 1)))

AddBlock(m, b) ==
    [m EXCEPT ![Len(m)].blocks = Append(@, b)]

AddParam(m, p) ==
    LET c == Len(m)
        b == Len(m[c].blocks)
    IN  [m EXCEPT ![c].blocks[b].parameter = Append(@, p)]

BlockAddrs == {0, 4096}
Offsets == {0, 42}

RECURSIVE AllBlocks(_)
AllBlocks(m) == IF m = <<>> THEN <<>> ELSE Head(m).blocks \o AllBlocks(Tail(m))

\* the first block of a model has either endianness, each later block the
\* endianness its predecessor has not
NextEndianness(m) ==
    IF AllBlocks(m) = <<>> THEN Endianness
    ELSE Endianness \ {AllBlocks(m)[Len(AllBlocks(m))].endianess}

\* the models that extend m by one entity, in declaration order
Extensions(m) ==
    {AddContainer(m)}
    \cup (IF m = <<>> THEN {}
          ELSE {AddBlock(m, Block(<<"B">> \o str(NumBlocks(m) + 1),
                                  4096 * (NumBlocks(m) + 1), e, h)) :
                    e \in NextEndianness(m), h \in BOOLEAN})
    \cup (IF m = <<>> \/ m[Len(m)].blocks = <<>> THEN {}
          ELSE {AddParam(m, Parameter(<<"P">> \o str(NumParams(m) + 1),
                                      "UINT16", 2, 2 * NumParams(m), None))})

RECURSIVE ModelsOfSize(_)
ModelsOfSize(n) ==
    IF n = 0 THEN {<<>>}
    ELSE UNION {Extensions(m) : m \in ModelsOfSize(n - 1)}

StructureModels == UNION {ModelsOfSize(n) : n \in 0..MaxEntities}

OneParameter(b, p) == AddParam(AddBlock(AddContainer(<<>>), b), p)

RECURSIVE Strings(_)
Strings(n) ==
    IF n = 0 THEN {<<>>}
    ELSE LET shorter == Strings(n - 1)
         IN  shorter \cup {Append(s, c) : s \in shorter, c \in {"a", "\n"}}

Comments == {None} \cup {Some(s) : s \in Strings(MaxCommentLen)}

PayloadLens(t) == {n \in 0..MaxPayload : n % get_type_size(t) = 0}

ParameterModels ==
    UNION {{OneParameter(Block(<<"B1">>, 4096, "LE", FALSE),
                         Parameter(<<"P1">>, t, n, 0, None)) :
                n \in PayloadLens(t)} : t \in ParamType}
    \cup {OneParameter(Block(<<"B1">>, 4096, "BE", FALSE),
                       Parameter(<<"P1">>, t, get_type_size(t), 0, c)) :
              t \in {"UINT16", "UTF8"}, c \in Comments}
    \cup {OneParameter(Block(<<"B1">>, a, e, h),
                       Parameter(<<"P1">>, "UINT32", 4, o, None)) :
              a \in BlockAddrs, e \in Endianness, h \in BOOLEAN, o \in Offsets}

Models == StructureModels \cup ParameterModels

(***************************************************************************)
(* What each hook writes: a sequence of write() calls, each a sequence of  *)
(* tokens, and the exception the hook raises by itself ("none" if none).   *)
(***************************************************************************)
PreRunHeader(opt) ==
    <<Cmt(<<"AUTOGENERATED by", opt.PNAME, opt.VERSION>>),
      Cmt(<<"A2L parameter description for", opt.INPUT>>),
      Cmt(<<"cmd:", opt.CMDLINE>>)>>

\* the stamp written whatever the flag says
StampAlways(opt) == TRUE

\* self.options.get("STATICOUTPUT") is False
StampWritten(opt) == opt.STATICOUTPUT = FALSE

PreRunStamp(opt) ==
    <<Cmt(<<"Date:", opt.DATETIME>>), Cmt(<<"Buildkey:", opt.GUID>>)>>

PreRunWrites(opt) ==
    <<PreRunHeader(opt)>>
    \o (IF StampWritten(opt) THEN <<PreRunStamp(opt)>> ELSE <<>>)
    \o << <<Cmt(<<"*/">>)>>,
          <<Kw("ASAP2_VERSION"), Lit(<<"1">>), Lit(<<"70">>)>>,
          <<Kw("/begin"), Kw("PROJECT"), Ident(<<opt.BASENAME>>), Quote, Quote>>,
          <<Kw("/begin"), Kw("HEADER"), Quote, Chars(<<opt.BASENAME>>), Quote>>,
          <<Kw("/end"), Kw("HEADER")>> >>

BeginContainerWrites(container) ==
    << <<Kw("/begin"), Kw("MODULE"), Ident(container.name), Quote, Quote>> >>

\* an end_container that writes nothing
EndContainerSilent(container) == <<>>

EndContainerWrites(container) ==
    << <<Kw("/end"), Kw("MODULE")>> >>

TypedefMeasurement(block, suffix, descr, ptype) ==
    <<Kw("/begin"), Kw("TYPEDEF_MEASUREMENT"),
      Ident(<<"T_">> \o block.name \o <<suffix>>),
      Quote, Chars(<<descr>>), Quote,
      Kw(TypeEntry(ptype)[1]),
      Kw("NO_COMPU_METHOD"), Lit(<<"0">>), Lit(<<"0">>),
      Lit(Format(TypeEntry(ptype)[2])),
      Lit(Format(TypeEntry(ptype)[3])),
      Kw("/end"), Kw("TYPEDEF_MEASUREMENT")>>

StructureComponent(block, field, suffix, off) ==
    <<Kw("/begin"), Kw("STRUCTURE_COMPONENT"),
      Ident(<<field>>), Ident(<<"T_">> \o block.name \o <<suffix>>),
      Lit(<<off>>),
      Kw("/end"), Kw("STRUCTURE_COMPONENT")>>

TypedefStructure(block) ==
    <<Kw("/begin"), Kw("TYPEDEF_STRUCTURE"),
      Ident(block.name \o <<"_header_type_t">>),
      Quote, Chars(<<"Block header structure">>), Quote,
      Lit(<<"16">>)>>
    \o StructureComponent(block, "id", "_USHORT", "0")
    \o StructureComponent(block, "major", "_USHORT", "2")
    \o StructureComponent(block, "minor", "_USHORT", "4")
    \o StructureComponent(block, "dataver", "_USHORT", "6")
    \o StructureComponent(block, "reserved", "_ULONG", "8")
    \o StructureComponent(block, "length", "_ULONG", "12")
    \o <<Kw("/end"), Kw("TYPEDEF_STRUCTURE")>>

HeaderInstance(block) ==
    <<Kw("/begin"), Kw("INSTANCE"),
      Ident(block.name \o <<"_blkhdr">>),
      Quote, Chars(<<"block header instance">>), Quote,
      Ident(block.name \o <<"_header_type_t">>),
      Lit(hex(block.addr)),
      Kw("/end"), Kw("INSTANCE")>>

\* a begin_block that does not look at block.header
BeginBlockUnguarded(block) ==
    << TypedefMeasurement(block, "_USHORT",
                          "block 16 bit parameter type", "UINT16")
       \o TypedefMeasurement(block, "_ULONG",
                             "block 32 bit parameter type", "UINT32")
       \o TypedefStructure(block)
       \o HeaderInstance(block) >>

BeginBlockWrites(block) ==
    IF block.header
    THEN << TypedefMeasurement(block, "_USHORT",
                               "block 16 bit parameter type", "UINT16")
            \o TypedefMeasurement(block, "_ULONG",
                                  "block 32 bit parameter type", "UINT32")
            \o TypedefStructure(block)
            \o HeaderInstance(block) >>
    ELSE <<>>

\* str.splitlines() over the line break "\n"
RECURSIVE splitlines(_)
splitlines(s) ==
    IF s = <<>> THEN <<>>
    ELSE IF \E i \in 1..Len(s) : s[i] = "\n"
         THEN LET i == CHOOSE j \in 1..Len(s) :
                           /\ s[j] = "\n"
                           /\ \A h \in 1..(j - 1) : s[h] # "\n"
              IN  <<SubSeq(s, 1, i - 1)>>
                  \o splitlines(SubSeq(s, i + 1, Len(s)))
         ELSE <<s>>

CommentRaises(param) ==
    param.comment.present /\ splitlines(param.comment.text) = <<>>

Description(param) ==
    IF param.comment.present
    THEN splitlines(param.comment.text)[1]
    ELSE <<"No comment defined">>

TypeLines(param, block) ==
    <<Kw(TypeEntry(param.ptype)[1]),
      Kw("NO_COMPU_METHOD"), Lit(<<"0">>), Lit(<<"0">>),
      Lit(Format(TypeEntry(param.ptype)[2])),
      Lit(Format(TypeEntry(param.ptype)[3])),
      Kw("BYTE_ORDER"), Kw(ByteOrder(block.endianess))>>

\* the array test with <= for <
IsArrayInclusive(param) ==
    \/ "UTF8" = param.ptype
    \/ get_type_size(param.ptype) <= param.value_len

IsArray(param) ==
    \/ "UTF8" = param.ptype
    \/ get_type_size(param.ptype) < param.value_len

MatrixDim(param) == param.value_len \div get_type_size(param.ptype)

\* the address taken relative to the block's base address
EcuAddressAbsolute(param, block) == hex(block.addr + param.offset)

EcuAddress(param, block) == hex(param.offset)

AddressLines(param, block) ==
    <<Kw("ECU_ADDRESS"), Lit(EcuAddress(param, block)),
      Kw("ECU_ADDRESS_EXTENSION"), Lit(<<"0x0">>),
      Kw("DISPLAY_IDENTIFIER"), Ident(param.name),
      Kw("READ_WRITE")>>

BeginParameterWrites(param, block) ==
    << <<Kw("/begin"), Kw("MEASUREMENT"), Ident(param.name)>>,
       <<Quote>> >>
    \o (IF CommentRaises(param) THEN <<>>
        ELSE << <<Chars(Description(param))>>,
                <<Quote>>,
                TypeLines(param, block) >>
             \o (IF IsArray(param)
                 THEN << <<Kw("MATRIX_DIM"), Lit(str(MatrixDim(param)))>> >>
                 ELSE <<>>)
             \o << AddressLines(param, block),
                   <<Kw("/end"), Kw("MEASUREMENT")>> >>)

BeginParameterRaises(param) ==
    IF CommentRaises(param) THEN "IndexError" ELSE "none"

PostRunWrites == << <<Kw("/end"), Kw("PROJECT")>> >>

(***************************************************************************)
(* Run options.  DATETIME and GUID are the two values that change from one *)
(* run to the next; STATICOUTPUT is a boolean.                             *)
(***************************************************************************)
Stamps == {<<"2023-01-01 10:00", "key-1">>, <<"2023-01-02 11:30", "key-2">>}

Options(static, stamp) ==
    [DESTDIR |-> "out", BASENAME |-> "param", PNAME |-> "pargen",
     VERSION |-> "0.1.0", INPUT |-> "param.xml",
     CMDLINE |-> "pargen --a2l -o out param.xml",
     STATICOUTPUT |-> static, DATETIME |-> stamp[1], GUID |-> stamp[2]]

(***************************************************************************)
(* State.                                                                  *)
(*   model, options  the arguments of A2lWriter(model, options)            *)
(*   pc, ci, bi, pi  the walker's position: the hook it calls next and the *)
(*                   container, block and parameter index of its loops     *)
(*   ctx_block       the walker's active block: <<container, block>> index *)
(*   a2l_file        self.a2l_file: "None", "open" or "closed"             *)
(*   closes          number of close() calls on the stream of this run     *)
(*   file            content of the destination file                       *)
(*   exc             exception that ended the run, "none" if none          *)
(*   last            the hook called last, the entity it was called on and *)
(*                   the length of the file when it was called             *)
(*   prev            content of the file at the end of the run before this *)
(*                   one, with the timestamp and build key of that run     *)
(***************************************************************************)
NoCall == [hook |-> "none", ci |-> 0, bi |-> 0, pi |-> 0, from |-> 0]

Init ==
    /\ model \in Models
    /\ options \in {Options(s, st) : s \in BOOLEAN, st \in Stamps}
    /\ pc = "pre_run"
    /\ ci = 0 /\ bi = 0 /\ pi = 0
    /\ ctx_block = <<0, 0>>
    /\ a2l_file = "None"
    /\ closes = 0
    /\ file = <<>>
    /\ exc = "none"
    /\ last = NoCall
    /\ prev = [valid |-> FALSE, out |-> <<>>, DATETIME |-> "", GUID |-> ""]

\* the first k write() calls of a hook succeed; the next one, if any, fails
Emit(hook, writes, raises, k, content) ==
    /\ file' = content \o Flatten(SubSeq(writes, 1, k))
    /\ exc' = IF k < Len(writes) THEN "OSError" ELSE raises
    /\ last' = [hook |-> hook, ci |-> ci, bi |-> bi, pi |-> pi,
                from |-> Len(content)]

\* the walker goes on to its next hook unless the hook raised
Goto(nextpc, c, b, p) ==
    /\ pc' = IF exc' = "none" THEN nextpc ELSE "aborted"
    /\ ci' = IF exc' = "none" THEN c ELSE ci
    /\ bi' = IF exc' = "none" THEN b ELSE bi
    /\ pi' = IF exc' = "none" THEN p ELSE pi

CurContainer == model[ci]
CurBlock == model[ci].blocks[bi]
CurParam == model[ci].blocks[bi].parameter[pi]
CtxBlock == model[ctx_block[1]].blocks[ctx_block[2]]

PreRun ==
    /\ pc = "pre_run"
    /\ \E opened \in BOOLEAN :
         IF opened
         THEN /\ a2l_file' = "open"
              /\ \E k \in 0..Len(PreRunWrites(options)) :
                     Emit("pre_run", PreRunWrites(options), "none", k, <<>>)
         ELSE /\ a2l_file' = a2l_file
              /\ file' = file
              /\ exc' = "OSError"
              /\ last' = [NoCall EXCEPT !.hook = "pre_run", !.from = Len(file)]
    /\ IF model = <<>>
       THEN Goto("post_run", 0, 0, 0)
       ELSE Goto("begin_container", 1, 0, 0)
    /\ UNCHANGED <<model, options, ctx_block, closes, prev>>

BeginContainer ==
    /\ pc = "begin_container"
    /\ \E k \in 0..Len(BeginContainerWrites(CurContainer)) :
           Emit("begin_container", BeginContainerWrites(CurContainer),
                "none", k, file)
    /\ IF CurContainer.blocks = <<>>
       THEN Goto("end_container", ci, 0, 0)
       ELSE Goto("begin_block", ci, 1, 0)
    /\ UNCHANGED <<model, options, ctx_block, a2l_file, closes, prev>>

BeginBlock ==
    /\ pc = "begin_block"
    /\ ctx_block' = <<ci, bi>>
    /\ \E k \in 0..Len(BeginBlockWrites(CurBlock)) :
           Emit("begin_block", BeginBlockWrites(CurBlock), "none", k, file)
    /\ IF CurBlock.parameter = <<>>
       THEN Goto("end_block", ci, bi, 0)
       ELSE Goto("begin_parameter", ci, bi, 1)
    /\ UNCHANGED <<model, options, a2l_file, closes, prev>>

BeginParameter ==
    /\ pc = "begin_parameter"
    /\ \E k \in 0..Len(BeginParameterWrites(CurParam, CtxBlock)) :
           Emit("begin_parameter", BeginParameterWrites(CurParam, CtxBlock),
                BeginParameterRaises(CurParam), k, file)
    /\ IF pi < Len(CurBlock.parameter)
       THEN Goto("begin_parameter", ci, bi, pi + 1)
       ELSE Goto("end_block", ci, bi, 0)
    /\ UNCHANGED <<model, options, ctx_block, a2l_file, closes, prev>>

EndBlock ==
    /\ pc = "end_block"
    /\ Emit("end_block", <<>>, "none", 0, file)
    /\ IF bi < Len(CurContainer.blocks)
       THEN Goto("begin_block", ci, bi + 1, 0)
       ELSE Goto("end_container", ci, 0, 0)
    /\ UNCHANGED <<model, options, ctx_block, a2l_file, closes, prev>>

EndContainer ==
    /\ pc = "end_container"
    /\ \E k \in 0..Len(EndContainerWrites(CurContainer)) :
           Emit("end_container", EndContainerWrites(CurContainer),
                "none", k, file)
    /\ IF ci < Len(model)
       THEN Goto("begin_container", ci + 1, 0, 0)
       ELSE Goto("post_run", 0, 0, 0)
    /\ UNCHANGED <<model, options, ctx_block, a2l_file, closes, prev>>

PostRun ==
    /\ pc = "post_run"
    /\ \E k \in 0..Len(PostRunWrites) :
           Emit("post_run", PostRunWrites, "none", k, file)
    /\ a2l_file' = IF exc' = "none" THEN "closed" ELSE a2l_file
    /\ closes' = IF exc' = "none" THEN closes + 1 ELSE closes
    /\ Goto("done", 0, 0, 0)
    /\ UNCHANGED <<model, options, ctx_block, prev>>

\* after a run that completed the driver generates again: a new writer over
\* the same model and options, with the timestamp and build key of the new run
Construct ==
    /\ pc = "done"
    /\ \E st \in Stamps :
           options' = Options(options.STATICOUTPUT, st)
    /\ prev' = [valid |-> TRUE, out |-> file,
                DATETIME |-> options.DATETIME, GUID |-> options.GUID]
    /\ pc' = "pre_run"
    /\ ci' = 0 /\ bi' = 0 /\ pi' = 0
    /\ ctx_block' = <<0, 0>>
    /\ a2l_file' = "None"
    /\ closes' = 0
    /\ exc' = "none"
    /\ last' = NoCall
    /\ UNCHANGED <<model, file>>

Next ==
    \/ PreRun
    \/ BeginContainer
    \/ BeginBlock
    \/ BeginParameter
    \/ EndBlock
    \/ EndContainer
    \/ PostRun
    \/ Construct

Spec == Init /\ [][Next]_vars

(***************************************************************************)
(* Reading the output back.                                                *)
(***************************************************************************)
\* what the hook called last has written
Written == SubSeq(file, last.from + 1, Len(file))

\* the hook called last is `hook' and it returned normally
Returned(hook) == last.hook = hook /\ exc = "none"

LastBlock == model[last.ci].blocks[last.bi]
LastParam == model[last.ci].blocks[last.bi].parameter[last.pi]

Positions(toks, tok) == {i \in 1..Len(toks) : toks[i] = tok}

DigitOf(c) == CHOOSE d \in 0..15 : DigitChar[d + 1] = c

RECURSIVE Parse(_, _, _)
Parse(chars, base, acc) ==
    IF chars = <<>> THEN acc
    ELSE Parse(Tail(chars), base, acc * base + DigitOf(Head(chars)))

ParseDec(chars) == Parse(chars, 10, 0)
\* the value of a literal <<"0x", digit, ...>>
ParseHex(chars) == Parse(Tail(chars), 16, 0)
IsHexLiteral(tok) == tok.k = "lit" /\ Len(tok.t) >= 2 /\ tok.t[1] = "0x"

\* The /begin and /end events of a token sequence, in order, found by a scan
\* that keeps the events so far, the tags of the open blocks, the name of the
\* open MODULE and the position to read next.  The depth of an event is the
\* depth of the block it opens or closes.  An /end that does not close the
\* innermost open block is "bad"; a block left open gives a last event "open".
ScanStep(toks, st) ==
    LET i == st.next
    IN  IF toks[i] \in {Kw("/begin"), Kw("/end")} /\ i < Len(toks)
        THEN LET tag  == IF toks[i + 1].k = "kw" THEN toks[i + 1].t[1] ELSE "?"
                 name == IF i + 2 <= Len(toks) /\ toks[i + 2].k = "id"
                         THEN toks[i + 2].t ELSE <<>>
                 n    == Len(st.stack)
             IN  IF toks[i] = Kw("/begin")
                 THEN [ev |-> Append(st.ev,
                                  [ev |-> "begin", tag |-> tag, name |-> name,
                                   depth |-> n + 1, module |-> st.module,
                                   at |-> i]),
                       stack |-> Append(st.stack, tag),
                       module |-> IF tag = "MODULE" THEN name ELSE st.module,
                       next |-> i + 2]
                 ELSE [ev |-> Append(st.ev,
                                  [ev |-> IF n > 0 /\ st.stack[n] = tag
                                          THEN "end" ELSE "bad",
                                   tag |-> tag, name |-> <<>>,
                                   depth |-> n, module |-> st.module,
                                   at |-> i]),
                       stack |-> IF n = 0 THEN <<>>
                                 ELSE SubSeq(st.stack, 1, n - 1),
                       module |-> IF tag = "MODULE" THEN <<>> ELSE st.module,
                       next |-> i + 2]
        ELSE [st EXCEPT !.next = i + 1]

RECURSIVE ScanSome(_, _, _)
ScanSome(toks, st, budget) ==
    IF budget = 0 \/ st.next > Len(toks) THEN st
    ELSE ScanSome(toks, ScanStep(toks, st), budget - 1)

RECURSIVE ScanAll(_, _)
ScanAll(toks, st) ==
    IF st.next > Len(toks) THEN st
    ELSE ScanAll(toks, ScanSome(toks, st, 32))

Events(toks) ==
    LET st == ScanAll(toks, [ev |-> <<>>, stack |-> <<>>,
                             module |-> <<>>, next |-> 1])
    IN  IF st.stack = <<>> THEN st.ev
        ELSE Append(st.ev, [ev |-> "open", tag |-> st.stack[Len(st.stack)],
                            name |-> <<>>, depth |-> Len(st.stack),
                            module |-> st.module, at |-> st.next])

NotComment(tok) == tok.k # "cmt"
IsStamp(tok) == tok.k = "cmt" /\ tok.t[1] \in {"Date:", "Buildkey:"}
NotStamp(tok) == ~IsStamp(tok)

Mentions(name, part) ==
    \E i \in 1..Len(name) : SubSeq(name, i, i + Len(part) - 1) = part

\* the stamp lines of a run, and their place inside the header comment
StampOf(d, g) == <<Cmt(<<"Date:", d>>), Cmt(<<"Buildkey:", g>>)>>

InHeader(out) ==
    \A i \in 1..Len(out) :
        IsStamp(out[i]) => \E j \in (i + 1)..Len(out) : out[j] = Cmt(<<"*/">>)

\* the records expected inside the MODULE of a container, in order
RECURSIVE ExpectedOfBlocks(_)
ExpectedOfBlocks(blocks) ==
    IF blocks = <<>> THEN <<>>
    ELSE LET b == Head(blocks)
         IN  (IF b.header
              THEN <<[tag |-> "TYPEDEF_MEASUREMENT", name |-> b.name],
                     [tag |-> "TYPEDEF_MEASUREMENT", name |-> b.name],
                     [tag |-> "TYPEDEF_STRUCTURE", name |-> b.name],
                     [tag |-> "INSTANCE", name |-> b.name]>>
              ELSE <<>>)
             \o [k \in 1..Len(b.parameter) |->
                    [tag |-> "MEASUREMENT", name |-> b.parameter[k].name]]
             \o ExpectedOfBlocks(Tail(blocks))

Matches(e, x) ==
    /\ e.tag = x.tag
    /\ IF x.tag = "MEASUREMENT" THEN e.name = x.name
       ELSE Mentions(e.name, x.name)

\* the text of a comment up to its first line break
FirstLine(text) ==
    LET breaks == {i \in 1..Len(text) : text[i] = "\n"}
        n == IF breaks = {} THEN Len(text) + 1
             ELSE CHOOSE i \in breaks : \A j \in breaks : i <= j
    IN  SubSeq(text, 1, n - 1)

\* the fields of the block header and their offsets
HeaderFields ==
    << <<"id", "0">>, <<"major", "2">>, <<"minor", "4">>,
       <<"dataver", "6">>, <<"reserved", "8">>, <<"length", "12">> >>

\* the ranges of the integer types, computed in decimal
RECURSIVE Pow2(_)
Pow2(n) ==
    IF n = 0 THEN <<1>>
    ELSE IF n >= 8 THEN MulAdd(Pow2(n - 8), 256, 0)
    ELSE MulAdd(Pow2(n - 1), 2, 0)

\* d - 1 for a magnitude d > 0
RECURSIVE Pred(_)
Pred(d) ==
    IF d[1] > 0
    THEN IF d = <<1>> THEN <<>> ELSE <<d[1] - 1>> \o Tail(d)
    ELSE <<9>> \o Pred(Tail(d))

UnsignedTypes == {"UINT8", "UINT16", "UINT32", "UINT64"}
SignedTypes == {"INT8", "INT16", "INT32", "INT64"}
Bits(t) == 8 * get_type_size(t)

RangeText(t) ==
    IF t \in SignedTypes
    THEN << <<"-">> \o MagStr(Pow2(Bits(t) - 1)),
            MagStr(Pred(Pow2(Bits(t) - 1))) >>
    ELSE << <<"0">>, MagStr(Pred(Pow2(Bits(t)))) >>

(***************************************************************************)
(* C1.  begin_parameter writes MATRIX_DIM exactly when the type is UTF8 or *)
(* the element size is smaller than the payload length, and then once,     *)
(* with the value payload length / element size; otherwise it writes no    *)
(* MATRIX_DIM.                                                             *)
(***************************************************************************)
C1_ArrayMarker ==
    Returned("begin_parameter") =>
        LET p    == LastParam
            size == get_type_size(p.ptype)
            at   == Positions(Written, Kw("MATRIX_DIM"))
        IN  IF p.ptype = "UTF8" \/ size < p.value_len
            THEN /\ Cardinality(at) = 1
                 /\ \A i \in at :
                        /\ i < Len(Written)
                        /\ Written[i + 1].k = "lit"
                        /\ ParseDec(Written[i + 1].t) * size = p.value_len
            ELSE at = {}

C1_Witness ==
    /\ Returned("begin_parameter")
    /\ LastParam.ptype = "UINT32"
    /\ LastParam.value_len = 8
    /\ \E i \in 1..(Len(Written) - 1) :
           Written[i] = Kw("MATRIX_DIM") /\ Written[i + 1] = Lit(<<"2">>)

(***************************************************************************)
(* C2.  When a run has ended, normally or by a failing hook, the stream    *)
(* that pre_run opened has been closed, exactly once.                      *)
(***************************************************************************)
C2_StreamClosed ==
    (pc \in {"done", "aborted"} /\ a2l_file # "None") =>
        a2l_file = "closed" /\ closes = 1

(***************************************************************************)
(* C3.  A run that completes after an earlier complete run over the same   *)
(* model and options has written the same output when STATICOUTPUT is set, *)
(* whatever DATETIME and GUID were; when it is not set, each output holds  *)
(* the Date and the Buildkey line of its run in the header comment and the *)
(* outputs are the same apart from these lines.                            *)
(***************************************************************************)
C3_StaticOutput ==
    (pc = "done" /\ prev.valid) =>
        IF options.STATICOUTPUT
        THEN file = prev.out
        ELSE /\ SelectSeq(file, IsStamp)
                    = StampOf(options.DATETIME, options.GUID)
             /\ SelectSeq(prev.out, IsStamp) = StampOf(prev.DATETIME, prev.GUID)
             /\ InHeader(file) /\ InHeader(prev.out)
             /\ SelectSeq(file, NotStamp) = SelectSeq(prev.out, NotStamp)

C3_Witness ==
    /\ pc = "done" /\ prev.valid
    /\ options.STATICOUTPUT
    /\ prev.DATETIME # options.DATETIME /\ prev.GUID # options.GUID
    /\ NumParams(model) > 0
    /\ file = prev.out

(***************************************************************************)
(* C4.  The output of a complete run is, after the header comment, the     *)
(* version token and one PROJECT block; every /begin has its /end and the  *)
(* blocks are properly nested; the PROJECT block holds one empty HEADER    *)
(* block and then one MODULE block per container, in the order and with    *)
(* the names of the model's containers; and the records inside the MODULE  *)
(* of a container are the header declarations and the MEASUREMENT records  *)
(* of that container's blocks, in declaration order.                       *)
(***************************************************************************)
C4_Document ==
    pc = "done" =>
        LET body == SelectSeq(file, NotComment)
            ev == Events(body)
            Top(e) == e.ev = "begin" /\ e.depth = 1
            Second(e) == e.ev = "begin" /\ e.depth = 2
            Third(e) == e.ev = "begin" /\ e.depth = 3
            top == SelectSeq(ev, Top)
            second == SelectSeq(ev, Second)
            third == SelectSeq(ev, Third)
        IN  /\ Len(body) >= 5
            /\ SubSeq(body, 1, 3)
                   = <<Kw("ASAP2_VERSION"), Lit(<<"1">>), Lit(<<"70">>)>>
            /\ \A k \in 1..Len(ev) : ev[k].ev \in {"begin", "end"}
            /\ Len(top) = 1 /\ top[1].tag = "PROJECT" /\ top[1].at = 4
            /\ ev[Len(ev)].tag = "PROJECT" /\ ev[Len(ev)].at = Len(body) - 1
            /\ Len(second) = 1 + Len(model)
            /\ second[1].tag = "HEADER"
            /\ ev[2].tag = "HEADER" /\ ev[3].tag = "HEADER"
            /\ \A c \in 1..Len(model) :
                   /\ second[c + 1].tag = "MODULE"
                   /\ second[c + 1].name = model[c].name
                   /\ LET InModule(e) == Third(e) /\ e.module = model[c].name
                          got == SelectSeq(ev, InModule)
                          want == ExpectedOfBlocks(model[c].blocks)
                      IN  /\ Len(got) = Len(want)
                          /\ \A k \in 1..Len(got) : Matches(got[k], want[k])
            /\ \A k \in 1..Len(third) :
                   \E c \in 1..Len(model) : third[k].module = model[c].name

C4_Witness ==
    /\ pc = "done"
    /\ Len(model) = 2
    /\ NumParams(model) > 0
    /\ \E c \in 1..Len(model) :
           \E b \in 1..Len(model[c].blocks) : model[c].blocks[b].header
    /\ Cardinality(Positions(file, Kw("MODULE"))) = 4

(***************************************************************************)
(* C5.  When a hook fails the run stops: no further hook is called, and    *)
(* the output holds no partial record: every MEASUREMENT record that was   *)
(* begun is complete.                                                      *)
(***************************************************************************)
C5_NoPartialEntity ==
    pc = "aborted" =>
        /\ ~ENABLED (BeginContainer \/ BeginBlock \/ BeginParameter
                     \/ EndBlock \/ EndContainer \/ PostRun)
        /\ (last.hook = "begin_parameter" /\ Written # <<>>) =>
               /\ Len(Written) >= 2
               /\ SubSeq(Written, Len(Written) - 1, Len(Written))
                      = <<Kw("/end"), Kw("MEASUREMENT")>>

(***************************************************************************)
(* C6.  Whatever the comment of a parameter is, begin_parameter writes one *)
(* description string (unless the stream fails): the first line of the     *)
(* comment when there is a comment, "No comment defined" when there is     *)
(* none.                                                                   *)
(***************************************************************************)
C6_Description ==
    (last.hook = "begin_parameter" /\ exc # "OSError") =>
        LET p == LastParam
            expected == IF p.comment.present THEN FirstLine(p.comment.text)
                        ELSE <<"No comment defined">>
        IN  /\ Len(Written) >= 6
            /\ Cardinality(Positions(Written, Quote)) = 2
            /\ SubSeq(Written, 4, 6) = <<Quote, Chars(expected), Quote>>
            /\ Cardinality({i \in 1..Len(Written) : Written[i].k = "chars"}) = 1

(***************************************************************************)
(* C7.  The BYTE_ORDER token of a MEASUREMENT record is the token of the   *)
(* endianness of the block that owns the parameter: MSB_LAST for a         *)
(* little-endian block, MSB_FIRST for a big-endian block.                  *)
(***************************************************************************)
C7_ByteOrder ==
    Returned("begin_parameter") =>
        LET at == Positions(Written, Kw("BYTE_ORDER"))
        IN  /\ Cardinality(at) = 1
            /\ \A i \in at :
                   /\ i < Len(Written)
                   /\ Written[i + 1] = Kw(IF LastBlock.endianess = "LE"
                                          THEN "MSB_LAST" ELSE "MSB_FIRST")

C7_Witness ==
    /\ Returned("begin_parameter")
    /\ LastBlock.endianess = "BE"
    /\ \E c \in 1..last.ci :
           \E b \in 1..Len(model[c].blocks) :
               /\ <<c, b>> # <<last.ci, last.bi>>
               /\ model[c].blocks[b].endianess = "LE"
    /\ \E i \in 1..(Len(Written) - 1) :
           Written[i] = Kw("BYTE_ORDER") /\ Written[i + 1] = Kw("MSB_FIRST")

(***************************************************************************)
(* C8.  begin_block on a block without header writes nothing.  On a block  *)
(* with a header it writes, in this order, a TYPEDEF_MEASUREMENT of the    *)
(* 16-bit unsigned type and one of the 32-bit unsigned type, each with the *)
(* wire name and range of its type, a TYPEDEF_STRUCTURE named              *)
(* <block>_header_type_t of size 16 with the fields id, major, minor,      *)
(* dataver, reserved, length at offsets 0, 2, 4, 6, 8, 12, and an INSTANCE *)
(* of that structure at the block's address as a hexadecimal literal.      *)
(***************************************************************************)
C8_BlockHeader ==
    Returned("begin_block") =>
        LET b == LastBlock
            w == Written
            ev == Events(w)
            Top(e) == e.ev = "begin" /\ e.depth = 1
            Field(e) == e.ev = "begin" /\ e.depth = 2
            top == SelectSeq(ev, Top)
            fields == SelectSeq(ev, Field)
            typename == b.name \o <<"_header_type_t">>
        IN  IF ~b.header THEN w = <<>>
            ELSE /\ \A k \in 1..Len(ev) : ev[k].ev \in {"begin", "end"}
                 /\ [k \in 1..Len(top) |-> top[k].tag]
                        = <<"TYPEDEF_MEASUREMENT", "TYPEDEF_MEASUREMENT",
                            "TYPEDEF_STRUCTURE", "INSTANCE">>
                 /\ LET m == top[1].at
                    IN  /\ w[m + 6] = Kw(TYPE_MAPPING["UINT16"][1])
                        /\ w[m + 10] = Lit(<<"0">>)
                        /\ w[m + 11] = Lit(<<"6", "5", "5", "3", "5">>)
                 /\ LET m == top[2].at
                    IN  /\ w[m + 6] = Kw(TYPE_MAPPING["UINT32"][1])
                        /\ w[m + 10] = Lit(<<"0">>)
                        /\ w[m + 11] = Lit(<<"4", "2", "9", "4", "9",
                                             "6", "7", "2", "9", "5">>)
                 /\ top[3].name = typename
                 /\ w[top[3].at + 6] = Lit(<<"16">>)
                 /\ Len(fields) = 6
                 /\ \A k \in 1..6 :
                        /\ fields[k].tag = "STRUCTURE_COMPONENT"
                        /\ top[3].at < fields[k].at /\ fields[k].at < top[4].at
                        /\ fields[k].name \o w[fields[k].at + 4].t
                               = HeaderFields[k]
                 /\ LET m == top[4].at
                    IN  /\ w[m + 6] = Ident(typename)
                        /\ IsHexLiteral(w[m + 7])
                        /\ ParseHex(w[m + 7].t) = b.addr

C8_Witness ==
    /\ Returned("begin_block")
    /\ LastBlock.header
    /\ LastBlock.addr = 4096
    /\ Lit(<<"0x", "1", "0", "0", "0">>) \in {Written[i] : i \in 1..Len(Written)}

(***************************************************************************)
(* C9.  The type table has an entry for every ParamType; the eight integer *)
(* wire names are pairwise distinct; the wire name, minimum and maximum    *)
(* written for a parameter are those of its type: 0 and 2^n - 1 for an     *)
(* unsigned n-bit type, -2^(n-1) and 2^(n-1) - 1 for a signed n-bit type,  *)
(* and for UTF8 the wire name and range of UINT8.                          *)
(***************************************************************************)
C9_TypeTable ==
    /\ DOMAIN TYPE_MAPPING = ParamType
    /\ \A t1, t2 \in UnsignedTypes \cup SignedTypes :
           t1 # t2 => TYPE_MAPPING[t1][1] # TYPE_MAPPING[t2][1]
    /\ Returned("begin_parameter") =>
           LET t  == LastParam.ptype
               at == Positions(Written, Kw("NO_COMPU_METHOD"))
               same == IF t = "UTF8" THEN "UINT8" ELSE t
           IN  /\ Cardinality(at) = 1
               /\ \A i \in at :
                      /\ Written[i - 1] = Kw(TYPE_MAPPING[same][1])
                      /\ Written[i + 3].k = "lit" /\ Written[i + 4].k = "lit"
                      /\ Written[i + 3].t # <<>> /\ Written[i + 4].t # <<>>
                      /\ t \notin {"FLOAT32", "FLOAT64"} =>
                             <<Written[i + 3].t, Written[i + 4].t>>
                                 = RangeText(same)

C9_Witness ==
    /\ Returned("begin_parameter")
    /\ LastParam.ptype = "INT64"
    /\ Lit(<<"-", "9", "2", "2", "3", "3", "7", "2", "0", "3", "6",
             "8", "5", "4", "7", "7", "5", "8", "0", "8">>)
           \in {Written[i] : i \in 1..Len(Written)}

(***************************************************************************)
(* C10.  The ECU_ADDRESS of a MEASUREMENT record is the hexadecimal        *)
(* literal of the parameter's offset, whatever the address of the owning   *)
(* block, and it is followed by ECU_ADDRESS_EXTENSION 0x0.                 *)
(***************************************************************************)
C10_Address ==
    Returned("begin_parameter") =>
        LET at == Positions(Written, Kw("ECU_ADDRESS"))
        IN  /\ Cardinality(at) = 1
            /\ \A i \in at :
                   /\ i + 3 <= Len(Written)
                   /\ IsHexLiteral(Written[i + 1])
                   /\ ParseHex(Written[i + 1].t) = LastParam.offset
                   /\ Written[i + 2] = Kw("ECU_ADDRESS_EXTENSION")
                   /\ Written[i + 3] = Lit(<<"0x0">>)

C10_Witness ==
    /\ Returned("begin_parameter")
    /\ LastBlock.addr = 4096
    /\ LastParam.offset = 0
    /\ \E i \in 1..(Len(Written) - 1) :
           Written[i] = Kw("ECU_ADDRESS") /\ Written[i + 1] = Lit(<<"0x", "0">>)

====
